---- MODULE Spec2Model ----
(***************************************************************************)
(* A model of code2prompt-manager (src/index.js): the glob-style path      *)
(* matcher, the directory scanner, the size estimator, the auto-exclusion  *)
(* planner and the reconciliation of the interactive selection in main().  *)
(*                                                                         *)
(* Strings that the code inspects character by character (paths and        *)
(* patterns) are sequences of one-character strings, so that slicing,      *)
(* prefix tests, the two String.replace calls and the regular expression   *)
(* test are computed the way the code computes them.                       *)
(***************************************************************************)
EXTENDS Integers, Sequences, FiniteSets, TLC

VARIABLES
    mPc, mPath, mPattern, mResult,  \* one call of utils.isPathExcluded
    ePc, eItems, ePatterns, eResult, \* one call of estimateFinalSize
    sPc, sRoot, sSkip, sItems, sWarnings, \* one call of scanDirectory
    pc,                 \* the position of main()
    fs,                 \* the directory tree under options.directory
    options,            \* program.opts(): limit, extraExclude, autoExclude, execute
    skipDirs,           \* getExcludeDirs(options)
    items,              \* scanDirectory(options.directory, skipDirs)
    warnings,           \* the paths utils.log.warning reported during the scan
    defaultExcludes, extraExcludes, allExcludes,  \* prepareExcludePatterns(options)
    initialSize, sizeLimit,
    fileChoices, directoryChoices,  \* the choice objects of the selection UI
    autoExcluded,       \* the values autoExcludeFiles returned
    remainingSize,      \* the 'New estimated size' of autoExcludeFiles
    selectedExcludes,   \* the answer of inquirer.prompt
    unselectedAutoExcludes,  \* the paths processUnselectedAutoExcludes reported
    finalExcludes, finalSize, dedupedExcludes,
    executed            \* how many times execSync ran the command

matchVars == <<mPc, mPath, mPattern, mResult>>
estVars == <<ePc, eItems, ePatterns, eResult>>
scanVars == <<sPc, sRoot, sSkip, sItems, sWarnings>>
mainVars ==
    <<pc, fs, options, skipDirs, items, warnings, defaultExcludes, extraExcludes,
      allExcludes, initialSize, sizeLimit, fileChoices, directoryChoices,
      autoExcluded, remainingSize, selectedExcludes, unselectedAutoExcludes,
      finalExcludes, finalSize, dedupedExcludes, executed>>
vars == <<matchVars, estVars, scanVars, mainVars>>

-----------------------------------------------------------------------------
(* JavaScript String and Array primitives used by the code.                *)

\* String.prototype.endsWith
endsWith(s, suffix) ==
    /\ Len(suffix) <= Len(s)
    /\ \A i \in 1..Len(suffix) : s[Len(s) - Len(suffix) + i] = suffix[i]

\* String.prototype.startsWith
startsWith(s, prefix) ==
    /\ Len(prefix) <= Len(s)
    /\ \A i \in 1..Len(prefix) : s[i] = prefix[i]

\* String.prototype.includes, for a one-character needle
includes(s, ch) == \E i \in 1..Len(s) : s[i] = ch

\* from occurs in s at position i
occursAt(s, i, from) ==
    /\ i + Len(from) - 1 <= Len(s)
    /\ \A k \in 1..Len(from) : s[i + k - 1] = from[k]

\* String.prototype.replace with a global literal regex: every leftmost,
\* non-overlapping occurrence of from is replaced by to, scanning left to
\* right from position i; the text put in is not scanned again.
RECURSIVE replaceFrom(_, _, _, _)
replaceFrom(s, i, from, to) ==
    IF i > Len(s) THEN <<>>
    ELSE IF occursAt(s, i, from)
         THEN to \o replaceFrom(s, i + Len(from), from, to)
         ELSE <<s[i]>> \o replaceFrom(s, i + 1, from, to)

replaceAll(s, from, to) == replaceFrom(s, 1, from, to)

-----------------------------------------------------------------------------
(* new RegExp(source).test(str) for the regular expressions the code       *)
(* builds: literals, '.', the class [^/], the quantifier '*', and the      *)
(* assertions '^' and '$'.  Patterns of the model use no other regex       *)
(* metacharacter.                                                          *)

NotSlashClass == <<"[", "^", "/", "]">>

\* The atoms of a regex source from position i on, left to right.
RECURSIVE RegExpParseFrom(_, _)
RegExpParseFrom(src, i) ==
    IF i > Len(src) THEN <<>>
    ELSE LET isClass == occursAt(src, i, NotSlashClass)
             width   == IF isClass THEN Len(NotSlashClass) ELSE 1
             kind    == IF isClass THEN "notslash"
                        ELSE IF src[i] = "." THEN "any"
                        ELSE IF src[i] = "^" THEN "bol"
                        ELSE IF src[i] = "$" THEN "eol"
                        ELSE "lit"
             starred == i + width <= Len(src) /\ src[i + width] = "*"
             used    == IF starred THEN width + 1 ELSE width
         IN  <<[kind |-> kind, ch |-> src[i], star |-> starred]>>
             \o RegExpParseFrom(src, i + used)

RegExpParse(src) == RegExpParseFrom(src, 1)

\* Does the atom accept the character?
AtomAccepts(atom, c) ==
    CASE atom.kind = "any"      -> TRUE
      [] atom.kind = "notslash" -> c # "/"
      [] atom.kind = "lit"      -> c = atom.ch
      [] OTHER                  -> FALSE

\* Backtracking match of atoms[i..] against str starting at position j.
RECURSIVE RegExpMatchAt(_, _, _, _)
RegExpMatchAt(atoms, i, str, j) ==
    IF i > Len(atoms) THEN TRUE
    ELSE LET atom == atoms[i] IN
         CASE atom.kind = "bol" -> j = 1 /\ RegExpMatchAt(atoms, i + 1, str, j)
           [] atom.kind = "eol" -> j = Len(str) + 1 /\ RegExpMatchAt(atoms, i + 1, str, j)
           [] atom.star ->
                \/ RegExpMatchAt(atoms, i + 1, str, j)
                \/ /\ j <= Len(str)
                   /\ AtomAccepts(atom, str[j])
                   /\ RegExpMatchAt(atoms, i, str, j + 1)
           [] OTHER ->
                /\ j <= Len(str)
                /\ AtomAccepts(atom, str[j])
                /\ RegExpMatchAt(atoms, i + 1, str, j + 1)

\* RegExp.prototype.test: a match starting at some position of str.
RegExpTest(src, str) ==
    LET atoms == RegExpParse(src)
    IN  \E start \in 1..(Len(str) + 1) : RegExpMatchAt(atoms, 1, str, start)

-----------------------------------------------------------------------------
(* utils.isPathExcluded and utils.isExcluded                               *)

\* A variant of WildcardRegexSource in which a single '*' becomes '.*'.
WildcardRegexSourceStarAny(pattern) ==
    <<"^">> \o replaceAll(replaceAll(pattern, <<"*", "*">>, <<".", "*">>), <<"*">>, <<".", "*">>) \o <<"$">>

\* The source of the regular expression built for a wildcard pattern:
\* '^' + pattern.replace(/\*\*/g, '.*').replace(/\*/g, '[^/]*') + '$'
WildcardRegexSource(pattern) ==
    <<"^">> \o replaceAll(replaceAll(pattern, <<"*", "*">>, <<".", "*">>), <<"*">>, <<"[", "^", "/", "]", "*">>) \o <<"$">>

\* A variant of isPathExcluded whose directory test forgets the '/' after
\* the directory name.
isPathExcludedBarePrefix(itemPath, pattern) ==
    IF endsWith(pattern, <<"/", "*", "*">>)
    THEN LET dirName == SubSeq(pattern, 1, Len(pattern) - 3)
         IN  itemPath = dirName \/ startsWith(itemPath, dirName)
    ELSE IF ~includes(pattern, "*")
    THEN itemPath = pattern
    ELSE RegExpTest(<<"^">> \o replaceAll(replaceAll(pattern, <<"*", "*">>, <<".", "*">>), <<"*">>, <<"[", "^", "/", "]", "*">>)
                    \o <<"$">>, itemPath)

\* A variant of isPathExcluded whose literal test accepts the pattern at the
\* end of the path.
isPathExcludedSuffix(itemPath, pattern) ==
    IF endsWith(pattern, <<"/", "*", "*">>)
    THEN LET dirName == SubSeq(pattern, 1, Len(pattern) - 3)
         IN  itemPath = dirName \/ startsWith(itemPath, dirName \o <<"/">>)
    ELSE IF ~includes(pattern, "*")
    THEN endsWith(itemPath, pattern)
    ELSE RegExpTest(<<"^">> \o replaceAll(replaceAll(pattern, <<"*", "*">>, <<".", "*">>), <<"*">>, <<"[", "^", "/", "]", "*">>)
                    \o <<"$">>, itemPath)

\* utils.isPathExcluded(itemPath, pattern); the third parameter, isDirectory,
\* is never read by the code.
isPathExcluded(itemPath, pattern) ==
    IF endsWith(pattern, <<"/", "*", "*">>)
    THEN LET dirName == SubSeq(pattern, 1, Len(pattern) - 3)
         IN  IF ~includes(dirName, "/")
             THEN itemPath = dirName \/ startsWith(itemPath, dirName \o <<"/">>)
             ELSE itemPath = dirName \/ startsWith(itemPath, dirName \o <<"/">>)
    ELSE IF ~includes(pattern, "*")
    THEN itemPath = pattern
    ELSE RegExpTest(WildcardRegexSource(pattern), itemPath)

\* A variant of isExcluded that asks the last pattern only.
isExcludedByLast(itemPath, excludePatterns) ==
    /\ excludePatterns # <<>>
    /\ isPathExcluded(itemPath, excludePatterns[Len(excludePatterns)])

\* utils.isExcluded: some pattern of the list matches.
isExcluded(itemPath, excludePatterns) ==
    \E k \in 1..Len(excludePatterns) : isPathExcluded(itemPath, excludePatterns[k])

-----------------------------------------------------------------------------
(* CONFIG                                                                  *)

COMMON_EXCLUDE_DIRS ==
    << <<"n", "o", "d", "e", "_", "m", "o", "d", "u", "l", "e", "s">>, <<".", "g", "i", "t">>, <<"v", "e", "n", "d", "o", "r">>, <<".", "n", "e", "x", "t">>, <<"d", "i", "s", "t">>, <<"b", "u", "i", "l", "d">>,
       <<".", "h", "u", "s", "k", "y">>, <<"p", "u", "b", "l", "i", "c">>, <<"d", "o", "c", "s">>, <<"a", "s", "s", "e", "t", "s", "/", "f", "o", "n", "t", "s">>, <<"a", "s", "s", "e", "t", "s", "/", "i", "m", "a", "g", "e", "s">>,
       <<"a", "s", "s", "e", "t", "s", "/", "s", "v", "g">>, <<"s", "r", "c", "/", "a", "s", "s", "e", "t", "s", "/", "i", "m", "a", "g", "e", "s">>, <<"a", "s", "s", "e", "t", "s", "/", "i", "c", "o", "n", "s">>, <<"l", "a", "n", "g", "u", "a", "g", "e", "s">>,
       <<"i", "m", "a", "g", "e", "s">>, <<"t", "e", "s", "t", "s">> >>

COMMON_EXCLUDE_FILES ==
    << <<"s", "c", "r", "e", "e", "n", "s", "h", "o", "t", ".", "p", "n", "g">>, <<"s", "c", "r", "e", "e", "n", "s", "h", "o", "t", ".", "j", "p", "g">>, <<"p", "a", "c", "k", "a", "g", "e", "-", "l", "o", "c", "k", ".", "j", "s", "o", "n">>,
       <<"c", "o", "m", "p", "o", "s", "e", "r", ".", "l", "o", "c", "k">>, <<"y", "a", "r", "n", ".", "l", "o", "c", "k">>, <<"*", ".", "m", "i", "n", ".", "j", "s">>, <<"*", ".", "m", "i", "n", ".", "c", "s", "s">> >>

-----------------------------------------------------------------------------
(* The file system.  A node is a record: name, kind ("file" or "dir"),     *)
(* size (of a file), entries (of a directory, in readdir order), statOk    *)
(* (fs.statSync succeeds on it) and readOk (fs.readdirSync succeeds).      *)
(* fs is the root directory: [readOk, entries].                            *)

\* Array.prototype.includes
arrayIncludes(arr, x) == \E i \in 1..Len(arr) : arr[i] = x

\* path.join(baseDir, entry) for a relative base and one entry name
pathJoin(baseDir, entry) ==
    IF baseDir = <<>> THEN entry ELSE baseDir \o <<"/">> \o entry

\* A variant of sortBySizeDesc that leaves the array as it is.
sortKeepOrder(arr) == arr

\* Array.prototype.sort((a, b) => b.size - a.size): stable, largest first.
RECURSIVE sortBySizeDesc(_)
sortBySizeDesc(arr) ==
    IF arr = <<>> THEN <<>>
    ELSE LET rest == sortBySizeDesc(SubSeq(arr, 1, Len(arr) - 1))
             x    == arr[Len(arr)]
             \* x goes after every element that is at least as large
             k    == Cardinality({i \in 1..Len(rest) : rest[i].size >= x.size})
         IN  SubSeq(rest, 1, k) \o <<x>> \o SubSeq(rest, k + 1, Len(rest))

\* utils.getDirSize(dirPath): the sizes of all files below, unreadable
\* entries counting nothing.
RECURSIVE getDirSizeOfEntries(_)
getDirSize(node) ==
    IF node.readOk THEN getDirSizeOfEntries(node.entries) ELSE 0
getDirSizeOfEntries(entries) ==
    IF entries = <<>> THEN 0
    ELSE LET e == entries[1]
             here == IF ~e.statOk THEN 0
                     ELSE IF e.kind = "dir" THEN getDirSize(e)
                     ELSE e.size
         IN  here + getDirSizeOfEntries(Tail(entries))

\* getExcludeDirs(options); options.extraExclude is the sequence of the
\* comma-separated, trimmed patterns (empty when the option is absent).
RECURSIVE addExtraSkipDirs(_, _)
addExtraSkipDirs(dirs, patterns) ==
    IF patterns = <<>> THEN dirs
    ELSE LET pattern == patterns[1]
             dirName == SubSeq(pattern, 1, Len(pattern) - 3)
             next ==
                IF endsWith(pattern, <<"/", "*", "*">>)
                THEN IF ~arrayIncludes(dirs, dirName) THEN Append(dirs, dirName) ELSE dirs
                ELSE IF ~includes(pattern, "*")
                THEN IF ~arrayIncludes(dirs, pattern) THEN Append(dirs, pattern) ELSE dirs
                ELSE dirs
         IN  addExtraSkipDirs(next, Tail(patterns))

getExcludeDirs(opts) == addExtraSkipDirs(COMMON_EXCLUDE_DIRS, opts.extraExclude)

\* A variant of shouldSkip that takes a name without '/' at any depth.
shouldSkipAnyDepth(entry, baseDir, relativePath, skip) ==
    \E k \in 1..Len(skip) :
        IF ~includes(skip[k], "/")
        THEN entry = skip[k]
        ELSE relativePath = skip[k]

\* The test of scanDirectory whether a directory is skipped.
shouldSkip(entry, baseDir, relativePath, skip) ==
    \E k \in 1..Len(skip) :
        IF ~includes(skip[k], "/")
        THEN entry = skip[k] /\ baseDir = <<>>
        ELSE relativePath = skip[k]

\* scan(dir, baseDir) of scanDirectory: the items pushed and the warnings
\* logged, in order.  The result is [items, warnings].
RECURSIVE scanEntries(_, _, _)
scanDir(node, baseDir, skip) ==
    IF node.readOk THEN scanEntries(node.entries, baseDir, skip)
    ELSE [items |-> <<>>, warnings |-> <<baseDir>>]
scanEntries(entries, baseDir, skip) ==
    IF entries = <<>> THEN [items |-> <<>>, warnings |-> <<>>]
    ELSE LET e == entries[1]
             relativePath == pathJoin(baseDir, e.name)
             here ==
                IF ~e.statOk
                THEN [items |-> <<>>, warnings |-> <<relativePath>>]
                ELSE IF e.kind = "dir"
                THEN IF shouldSkip(e.name, baseDir, relativePath, skip)
                     THEN [items |-> <<[path |-> relativePath, isDirectory |-> TRUE,
                                        size |-> 0]>>,
                           warnings |-> <<>>]
                     ELSE LET sub == scanDir(e, relativePath, skip)
                          IN  [items |-> <<[path |-> relativePath, isDirectory |-> TRUE,
                                            size |-> getDirSize(e)]>> \o sub.items,
                               warnings |-> sub.warnings]
                ELSE [items |-> <<[path |-> relativePath, isDirectory |-> FALSE,
                                   size |-> e.size]>>,
                      warnings |-> <<>>]
             rest == scanEntries(Tail(entries), baseDir, skip)
         IN  [items |-> here.items \o rest.items,
              warnings |-> here.warnings \o rest.warnings]

\* scanDirectory(rootDir, skipDirs): the items, sorted largest first.  The
\* prettySize field of an item only feeds the labels of the UI and is left out.
scanDirectory(root, skip) ==
    LET r == scanDir(root, <<>>, skip)
    IN  [items |-> sortBySizeDesc(r.items), warnings |-> r.warnings]

\* The segments of a path, split at '/'.
RECURSIVE SplitSlash(_)
SplitSlash(s) ==
    IF ~includes(s, "/") THEN <<s>>
    ELSE LET k == CHOOSE i \in 1..Len(s) : s[i] = "/" /\ \A h \in 1..(i - 1) : s[h] # "/"
         IN  <<SubSeq(s, 1, k - 1)>> \o SplitSlash(SubSeq(s, k + 1, Len(s)))

\* The node at a relative path, or the record [found |-> FALSE].
RECURSIVE lookupIn(_, _)
lookupIn(entries, segs) ==
    IF segs = <<>> \/ ~\E i \in 1..Len(entries) : entries[i].name = segs[1]
    THEN [found |-> FALSE]
    ELSE LET e == entries[CHOOSE i \in 1..Len(entries) : entries[i].name = segs[1]]
         IN  IF ~e.statOk THEN [found |-> FALSE]
             ELSE IF Len(segs) = 1 THEN [found |-> TRUE, node |-> e]
             ELSE IF e.kind = "dir" THEN lookupIn(e.entries, Tail(segs))
             ELSE [found |-> FALSE]

\* fs.existsSync(p) && fs.statSync(p).isDirectory() for p = path.join(
\* options.directory, pattern), pattern being a plain relative path.
existsAsDirectory(root, pattern) ==
    LET hit == lookupIn(root.entries, SplitSlash(pattern))
    IN  hit.found /\ hit.node.kind = "dir"

\* prepareExcludePatterns(options)
RECURSIVE extraExcludePatterns(_, _)
extraExcludePatterns(root, patterns) ==
    IF patterns = <<>> THEN <<>>
    ELSE LET pattern == patterns[1]
             pushed ==
                IF pattern = <<>> THEN <<>>
                ELSE IF ~includes(pattern, "*") /\ existsAsDirectory(root, pattern)
                THEN <<pattern \o <<"/", "*", "*">>>>
                ELSE <<pattern>>
         IN  pushed \o extraExcludePatterns(root, Tail(patterns))

\* A variant of prepareExcludePatterns whose defaults lack the directory
\* patterns.
prepareExcludePatternsFilesOnly(root, opts) ==
    LET extras == extraExcludePatterns(root, opts.extraExclude)
    IN  [defaultExcludes |-> COMMON_EXCLUDE_FILES, extraExcludes |-> extras,
         allExcludes |-> COMMON_EXCLUDE_FILES \o extras]

prepareExcludePatterns(root, opts) ==
    LET defaults == [i \in 1..Len(COMMON_EXCLUDE_DIRS) |-> COMMON_EXCLUDE_DIRS[i] \o <<"/", "*", "*">>]
                    \o COMMON_EXCLUDE_FILES
        extras   == extraExcludePatterns(root, opts.extraExclude)
    IN  [defaultExcludes |-> defaults, extraExcludes |-> extras,
         allExcludes |-> defaults \o extras]

-----------------------------------------------------------------------------
(* estimateFinalSize                                                       *)

OverheadPerItem == 100
OverheadCap == 50 * 1024
KB == 1024

Min(a, b) == IF a < b THEN a ELSE b

\* A variant of includedFileSize that forgets the isDirectory test.
RECURSIVE includedFileSizeWithDirs(_, _)
includedFileSizeWithDirs(its, excludePatterns) ==
    IF its = <<>> THEN 0
    ELSE IF Len(its) = 1
    THEN (IF ~isExcluded(its[1].path, excludePatterns) THEN its[1].size ELSE 0)
    ELSE LET mid == Len(its) \div 2
         IN  includedFileSizeWithDirs(SubSeq(its, 1, mid), excludePatterns)
             + includedFileSizeWithDirs(SubSeq(its, mid + 1, Len(its)), excludePatterns)

\* The forEach loop: the sizes of the files that no pattern excludes.  The
\* loop adds them item by item; the sum is formed here by halves of the
\* array, which is the same number and keeps the evaluation shallow for
\* arrays of hundreds of items.
RECURSIVE includedFileSize(_, _)
includedFileSize(its, excludePatterns) ==
    IF its = <<>> THEN 0
    ELSE IF Len(its) = 1
    THEN (IF ~its[1].isDirectory /\ ~isExcluded(its[1].path, excludePatterns)
          THEN its[1].size ELSE 0)
    ELSE LET mid == Len(its) \div 2
         IN  includedFileSize(SubSeq(its, 1, mid), excludePatterns)
             + includedFileSize(SubSeq(its, mid + 1, Len(its)), excludePatterns)

\* A variant of markdownOverhead without the cap.
markdownOverheadUncapped(its) == Len(its) * OverheadPerItem

markdownOverhead(its) == Min(Len(its) * OverheadPerItem, OverheadCap)

estimateFinalSize(its, excludePatterns) ==
    includedFileSize(its, excludePatterns) + markdownOverhead(its)

-----------------------------------------------------------------------------
(* createSelectionChoices: the choice objects, files and directories each  *)
(* sorted largest first.  name and short are labels and are left out.      *)

fileChoicesOf(its, excludes) ==
    LET files == sortBySizeDesc(SelectSeq(its, LAMBDA it : ~it.isDirectory))
    IN  [i \in 1..Len(files) |->
            [value |-> files[i].path, size |-> files[i].size,
             checked |-> isExcluded(files[i].path, excludes)]]

directoryChoicesOf(its, excludes) ==
    LET dirs == sortBySizeDesc(SelectSeq(its, LAMBDA it : it.isDirectory))
    IN  [i \in 1..Len(dirs) |->
            [value |-> dirs[i].path \o <<"/", "*", "*">>,
             checked |-> isExcluded(dirs[i].path, excludes)]]

-----------------------------------------------------------------------------
(* autoExcludeFiles                                                        *)

\* targetSize = sizeLimit * 0.95.  remainingSize and sizeLimit are integers,
\* so remainingSize > sizeLimit * 0.95 is decided exactly by
\* remainingSize * 100 > sizeLimit * 95.
TargetPercent == 95

\* A variant of aboveTarget without the 5% margin.
aboveTargetNoMargin(remaining, limit) == remaining > limit

aboveTarget(remaining, limit) == remaining * 100 > limit * TargetPercent

\* The indices of the choices, largest size first, ties in index order.
RECURSIVE indicesBySizeDesc(_, _)
indicesBySizeDesc(choices, idx) ==
    IF idx = <<>> THEN <<>>
    ELSE LET rest == indicesBySizeDesc(choices, SubSeq(idx, 1, Len(idx) - 1))
             x    == idx[Len(idx)]
             k    == Cardinality({i \in 1..Len(rest) :
                                    choices[rest[i]].size >= choices[x].size})
         IN  SubSeq(rest, 1, k) \o <<x>> \o SubSeq(rest, k + 1, Len(rest))

\* A variant of filesToConsider without the filter on checked.
filesToConsiderAll(choices) ==
    indicesBySizeDesc(choices, [i \in 1..Len(choices) |-> i])

\* filesToConsider: the unchecked choices, as indices into choices.
filesToConsider(choices) ==
    indicesBySizeDesc(choices,
        SelectSeq([i \in 1..Len(choices) |-> i], LAMBDA i : ~choices[i].checked))

\* A variant of the loop that never breaks: every candidate is taken.
RECURSIVE excludeLoopNoBreak(_, _, _, _, _)
excludeLoopNoBreak(choices, cand, k, remaining, limit) ==
    IF k <= Len(cand)
    THEN excludeLoopNoBreak(choices, cand, k + 1, remaining - choices[cand[k]].size,
                            limit)
    ELSE [taken |-> k - 1, remainingSize |-> remaining]

\* The for loop: how many of the candidates are taken, and what remains.
RECURSIVE excludeLoop(_, _, _, _, _)
excludeLoop(choices, cand, k, remaining, limit) ==
    IF k <= Len(cand) /\ aboveTarget(remaining, limit)
    THEN excludeLoop(choices, cand, k + 1, remaining - choices[cand[k]].size, limit)
    ELSE [taken |-> k - 1, remainingSize |-> remaining]

\* A variant of autoExcludeFiles that starts as soon as the initial size is
\* above the target of 95% of the limit.
autoExcludeFilesAboveTarget(choices, initial, limit, autoExclude) ==
    IF autoExclude /\ aboveTarget(initial, limit)
    THEN LET cand == filesToConsider(choices)
             r    == excludeLoop(choices, cand, 1, initial, limit)
             hit  == {cand[k] : k \in 1..r.taken}
         IN  [autoExcluded |-> [k \in 1..r.taken |-> choices[cand[k]].value],
              choices |-> [i \in 1..Len(choices) |->
                              IF i \in hit THEN [choices[i] EXCEPT !.checked = TRUE]
                              ELSE choices[i]],
              remainingSize |-> r.remainingSize,
              logged |-> r.taken > 0]
    ELSE [autoExcluded |-> <<>>, choices |-> choices,
          remainingSize |-> initial, logged |-> FALSE]

\* A variant of autoExcludeFiles that returns its picks without setting
\* checked on them.
autoExcludeFilesWithoutCheck(choices, initial, limit, autoExclude) ==
    IF autoExclude /\ initial > limit
    THEN LET cand == filesToConsider(choices)
             r    == excludeLoop(choices, cand, 1, initial, limit)
         IN  [autoExcluded |-> [k \in 1..r.taken |-> choices[cand[k]].value],
              choices |-> choices,
              remainingSize |-> r.remainingSize,
              logged |-> r.taken > 0]
    ELSE [autoExcluded |-> <<>>, choices |-> choices,
          remainingSize |-> initial, logged |-> FALSE]

\* A variant of autoExcludeFiles that leaves checked only on its own picks.
autoExcludeFilesOnlyPicksChecked(choices, initial, limit, autoExclude) ==
    IF autoExclude /\ initial > limit
    THEN LET cand == filesToConsider(choices)
             r    == excludeLoop(choices, cand, 1, initial, limit)
             hit  == {cand[k] : k \in 1..r.taken}
         IN  [autoExcluded |-> [k \in 1..r.taken |-> choices[cand[k]].value],
              choices |-> [i \in 1..Len(choices) |->
                              [choices[i] EXCEPT !.checked = (i \in hit)]],
              remainingSize |-> r.remainingSize,
              logged |-> r.taken > 0]
    ELSE [autoExcluded |-> <<>>, choices |-> choices,
          remainingSize |-> initial, logged |-> FALSE]

\* autoExcludeFiles(choices, initialSize, sizeLimit, autoExclude): the values
\* returned, the choices with file.checked set, and the remainingSize logged
\* as 'New estimated size' (logged is whether that line is printed).
autoExcludeFiles(choices, initial, limit, autoExclude) ==
    IF autoExclude /\ initial > limit
    THEN LET cand == filesToConsider(choices)
             r    == excludeLoop(choices, cand, 1, initial, limit)
             hit  == {cand[k] : k \in 1..r.taken}
         IN  [autoExcluded |-> [k \in 1..r.taken |-> choices[cand[k]].value],
              choices |-> [i \in 1..Len(choices) |->
                              IF i \in hit THEN [choices[i] EXCEPT !.checked = TRUE]
                              ELSE choices[i]],
              remainingSize |-> r.remainingSize,
              logged |-> r.taken > 0]
    ELSE [autoExcluded |-> <<>>, choices |-> choices,
          remainingSize |-> initial, logged |-> FALSE]

-----------------------------------------------------------------------------
(* The selection UI and the steps of main() after it.                      *)

\* The values inquirer.prompt returns: the checked choices, files first and
\* directories after them, each group in the order shown.
checkedValues(choices) ==
    LET on == SelectSeq(choices, LAMBDA c : c.checked)
    IN  [i \in 1..Len(on) |-> on[i].value]

\* A variant of processUnselectedAutoExcludes with the filter inverted.
processSelectedAutoExcludes(auto, selected) ==
    SelectSeq(auto, LAMBDA item : arrayIncludes(selected, item))

\* processUnselectedAutoExcludes: the auto-excluded values the answer lacks.
processUnselectedAutoExcludes(auto, selected) ==
    SelectSeq(auto, LAMBDA item : ~arrayIncludes(selected, item))

\* A variant of dedupe that keeps the last occurrence of each element.
RECURSIVE dedupeKeepLast(_)
dedupeKeepLast(arr) ==
    IF arr = <<>> THEN <<>>
    ELSE LET rest == dedupeKeepLast(Tail(arr))
         IN  IF arrayIncludes(rest, arr[1]) THEN rest ELSE <<arr[1]>> \o rest

\* Array.from(new Set(arr)): the first occurrence of each element, in order.
RECURSIVE dedupe(_)
dedupe(arr) ==
    IF arr = <<>> THEN <<>>
    ELSE LET init == dedupe(SubSeq(arr, 1, Len(arr) - 1))
             x    == arr[Len(arr)]
         IN  IF arrayIncludes(init, x) THEN init ELSE Append(init, x)

\* A variant of executeCommand that ignores its execute argument.
executeCommandAlways(count, execute) == count + 1

\* executeCommand(cmd, execute): execSync runs the command when execute is
\* set (an error of the command is caught and logged).  count is the number
\* of times the command ran before the call, the result the number after.
executeCommand(count, execute) == IF execute THEN count + 1 ELSE count

-----------------------------------------------------------------------------
(* Inputs of the matcher specification.                                    *)

MaxPathLen == 5
MaxPatLen == 4
MaxDirLen == 3

PathAlphabet == {"a", ".", "/"}
PatternAlphabet == {"a", ".", "/", "*"}

Strs(alphabet, n) == UNION {[1..k -> alphabet] : k \in 1..n}

\* A relative path as path.join produces it from directory entries: segments
\* separated by single slashes, none of them empty, '.' or '..'.
IsRelativePath(s) ==
    LET segs == SplitSlash(s)
    IN  \A k \in 1..Len(segs) : segs[k] \notin {<<>>, <<".">>, <<".", ".">>}

MatchPaths == {s \in Strs(PathAlphabet, MaxPathLen) : IsRelativePath(s)}

MatchPatterns ==
    Strs(PatternAlphabet, MaxPatLen)
    \cup {d \o <<"/", "*", "*">> : d \in Strs(PathAlphabet, MaxDirLen)}

\* The path/pattern pairs named in the documentation of the matcher.
ExamplePairs ==
    { <<<<"s", "r", "c", "/", "i", "n", "d", "e", "x", ".", "t", "s">>, <<"s", "r", "c", "/", "*", "*">>>>,
      <<<<"s", "r", "c", "x", "/", "i", "n", "d", "e", "x", ".", "t", "s">>, <<"s", "r", "c", "/", "*", "*">>>>,
      <<<<"s", "r", "c">>, <<"s", "r", "c", "/", "*", "*">>>>,
      <<<<"s", "r", "c", "/", "a", "s", "s", "e", "t", "s", "/", "i", "m", "a", "g", "e", "s", "/", "a", ".", "p", "n", "g">>, <<"s", "r", "c", "/", "a", "s", "s", "e", "t", "s", "/", "i", "m", "a", "g", "e", "s", "/", "*", "*">>>>,
      <<<<"p", "a", "c", "k", "a", "g", "e", "-", "l", "o", "c", "k", ".", "j", "s", "o", "n">>, <<"p", "a", "c", "k", "a", "g", "e", "-", "l", "o", "c", "k", ".", "j", "s", "o", "n">>>>,
      <<<<"s", "u", "b", "/", "p", "a", "c", "k", "a", "g", "e", "-", "l", "o", "c", "k", ".", "j", "s", "o", "n">>, <<"p", "a", "c", "k", "a", "g", "e", "-", "l", "o", "c", "k", ".", "j", "s", "o", "n">>>>,
      <<<<"a", "p", "p", ".", "m", "i", "n", ".", "j", "s">>, <<"*", ".", "m", "i", "n", ".", "j", "s">>>>,
      <<<<"s", "u", "b", "/", "a", "p", "p", ".", "m", "i", "n", ".", "j", "s">>, <<"*", ".", "m", "i", "n", ".", "j", "s">>>>,
      <<<<"a", "X", "m", "i", "n", "Y", "j", "s">>, <<"*", ".", "m", "i", "n", ".", "j", "s">>>>,
      <<<<"a", "p", "p", ".", "m", "i", "n", ".", "j", "s">>, <<"*", "*", "/", "*", ".", "m", "i", "n", ".", "j", "s">>>>,
      <<<<"s", "u", "b", "/", "a", "p", "p", ".", "m", "i", "n", ".", "j", "s">>, <<"*", "*", "/", "*", ".", "m", "i", "n", ".", "j", "s">>>>,
      <<<<"s", "r", "c", "/", "i", "n", "d", "e", "x", ".", "t", "s">>, <<"*", "*">>>> }

-----------------------------------------------------------------------------
(* Directory trees and options of a run.                                   *)

File(name, size) ==
    [name |-> name, kind |-> "file", size |-> size, entries |-> <<>>,
     statOk |-> TRUE, readOk |-> TRUE]

Dir(name, entries) ==
    [name |-> name, kind |-> "dir", size |-> 0, entries |-> entries,
     statOk |-> TRUE, readOk |-> TRUE]

Root(entries) == [readOk |-> TRUE, entries |-> entries]

MaxFileUnits == 2
MaxToggles == 1

\* File sizes of the small trees are multiples of SizeUnit bytes.
SizeUnit == 2 * OverheadPerItem

\* A small project: two text files, a minified script, node_modules and src.
SmallTree(sa, si) ==
    Root(<< File(<<"a", ".", "t", "x", "t">>, sa * SizeUnit),
            File(<<"a", "p", "p", ".", "m", "i", "n", ".", "j", "s">>, SizeUnit),
            File(<<"b", ".", "t", "x", "t">>, 2 * SizeUnit),
            Dir(<<"n", "o", "d", "e", "_", "m", "o", "d", "u", "l", "e", "s">>, <<File(<<"x", ".", "j", "s">>, 5 * SizeUnit)>>),
            Dir(<<"s", "r", "c">>, <<File(<<"i", "n", "d", "e", "x", ".", "t", "s">>, si * SizeUnit)>>) >>)

SmallTrees ==
    {SmallTree(sa, si) : sa \in 0..MaxFileUnits, si \in 0..MaxFileUnits}

\* Files of 500, 300, 200 and 100 KB, listed in name order.
ExampleTree ==
    Root(<< File(<<"a", ".", "t", "x", "t">>, 200 * KB), File(<<"b", ".", "t", "x", "t">>, 500 * KB),
            File(<<"c", ".", "t", "x", "t">>, 100 * KB), File(<<"d", ".", "t", "x", "t">>, 300 * KB) >>)

\* a.txt (300 KB), b.txt (200 KB) and node_modules holding x.js (1 MB).
EndToEndTree ==
    Root(<< File(<<"a", ".", "t", "x", "t">>, 300 * KB), File(<<"b", ".", "t", "x", "t">>, 200 * KB),
            Dir(<<"n", "o", "d", "e", "_", "m", "o", "d", "u", "l", "e", "s">>, <<File(<<"x", ".", "j", "s">>, 1024 * KB)>>) >>)

\* Eleven small files: the overhead alone is above 1 KB.
ManyFilesTree ==
    Root([i \in 1..11 |->
            File(<<"f", <<"a", "b", "c", "d", "e", "f", "g", "h", "i", "j", "k">>[i]>>,
                 OverheadPerItem)])

\* A file that cannot be stat'd and a directory that cannot be read.
UnreadableTree ==
    Root(<< [File(<<"a", ".", "t", "x", "t">>, SizeUnit) EXCEPT !.statOk = FALSE],
            File(<<"b", ".", "t", "x", "t">>, 2 * SizeUnit),
            [Dir(<<"l", "i", "b">>, <<File(<<"c", ".", "t", "x", "t">>, SizeUnit)>>) EXCEPT !.readOk = FALSE] >>)

\* The directory to scan cannot be read at all.
UnreadableRoot == [readOk |-> FALSE, entries |-> <<>>]

Trees ==
    SmallTrees \cup {ExampleTree, EndToEndTree, ManyFilesTree, UnreadableTree,
                     UnreadableRoot}

\* Directories named like skip targets at the top level and further down.
NestedTree(sz) ==
    Root(<< File(<<"b", "i", "g", ".", "t", "x", "t">>, 4 * SizeUnit),
            Dir(<<"l", "i", "b">>, <<File(<<"q", ".", "j", "s">>, sz * SizeUnit)>>),
            Dir(<<"n", "o", "d", "e", "_", "m", "o", "d", "u", "l", "e", "s">>, <<File(<<"x", ".", "j", "s">>, 5 * SizeUnit)>>),
            Dir(<<"s", "r", "c">>, << File(<<"i", "n", "d", "e", "x", ".", "t", "s">>, SizeUnit),
                           Dir(<<"l", "i", "b">>, << File(<<"z", ".", "j", "s">>, 2 * SizeUnit),
                                          Dir(<<"d", "e", "e", "p">>, <<File(<<"w", ".", "j", "s">>, SizeUnit)>>) >>),
                           Dir(<<"n", "o", "d", "e", "_", "m", "o", "d", "u", "l", "e", "s">>, <<File(<<"y", ".", "j", "s">>, 3 * SizeUnit)>>) >>) >>)

\* A subdirectory that cannot be read and a file that cannot be stat'd, below
\* a directory that can.
NestedUnreadableTree ==
    Root(<< File(<<"a", ".", "t", "x", "t">>, SizeUnit),
            Dir(<<"s", "r", "c">>, << [File(<<"g", "o", "n", "e", ".", "t", "s">>, SizeUnit) EXCEPT !.statOk = FALSE],
                           File(<<"i", "n", "d", "e", "x", ".", "t", "s">>, 2 * SizeUnit),
                           [Dir(<<"l", "o", "c", "k", "e", "d">>, <<File(<<"k", ".", "j", "s">>, SizeUnit)>>)
                               EXCEPT !.readOk = FALSE] >>),
            [Dir(<<"t", "m", "p">>, <<>>) EXCEPT !.statOk = FALSE] >>)

\* The decimal digits of n, as characters.
RECURSIVE Digits(_)
Digits(n) ==
    LET d == <<"0", "1", "2", "3", "4", "5", "6", "7", "8", "9">>[(n % 10) + 1]
    IN  IF n < 10 THEN <<d>> ELSE Append(Digits(n \div 10), d)

\* What scanDirectory returns for a directory of n entries: the files
\* f1 .. f(n-1), the early ones larger than the late ones, and the skipped
\* directory node_modules.
FlatItems(n) ==
    [i \in 1..n |->
        IF i < n
        THEN [path |-> <<"f">> \o Digits(i), isDirectory |-> FALSE,
              size |-> (IF 2 * i <= n THEN 2 ELSE 1) * SizeUnit]
        ELSE [path |-> <<"n", "o", "d", "e", "_", "m", "o", "d", "u", "l", "e", "s">>, isDirectory |-> TRUE, size |-> 0]]

\* The number of entries at which the overhead reaches its cap.
CapEntries == OverheadCap \div OverheadPerItem

\* Scan results with one entry less than, as many as, and one more than
\* CapEntries.
FlatItemLists == {FlatItems(n) : n \in (CapEntries - 1)..(CapEntries + 1)}

ScanTrees ==
    Trees \cup {NestedTree(sz) : sz \in 0..MaxFileUnits} \cup {NestedUnreadableTree}

\* --limit, in KB
LimitChoices == {1, 2, 400}

\* --extra-exclude, split at ',' and trimmed; <<>> when the option is absent
ExtraExcludeChoices == { <<>>, <<<<"s", "r", "c">>>>, <<<<"*", ".", "t", "x", "t">>>> }

\* --extra-exclude values for a call of scanDirectory on its own
ScanExtraExcludeChoices ==
    ExtraExcludeChoices \cup
    { <<<<"l", "i", "b">>>>, <<<<"s", "r", "c", "/", "l", "i", "b">>>>, <<<<"s", "r", "c", "/", "l", "i", "b", "/", "*", "*">>>>, <<<<"s", "r", "c", "/", "n", "o", "d", "e", "_", "m", "o", "d", "u", "l", "e", "s">>, <<"l", "i", "b", "/", "*", "*">>>>,
      <<<<"s", "r", "c", "/", "l", "i", "b", "/", "d", "e", "e", "p">>>>, <<<<"s", "r", "c", "/", "l", "o", "c", "k", "e", "d">>>> }

Options ==
    [limit : LimitChoices, extraExclude : ExtraExcludeChoices,
     autoExclude : BOOLEAN, execute : BOOLEAN]

-----------------------------------------------------------------------------
(* main()                                                                  *)

MainIdle ==
    /\ pc = "idle"
    /\ fs = Root(<<>>)
    /\ options = [limit |-> 400, extraExclude |-> <<>>, autoExclude |-> FALSE,
                  execute |-> TRUE]
    /\ skipDirs = <<>> /\ items = <<>> /\ warnings = <<>>
    /\ defaultExcludes = <<>> /\ extraExcludes = <<>> /\ allExcludes = <<>>
    /\ initialSize = 0 /\ sizeLimit = 0
    /\ fileChoices = <<>> /\ directoryChoices = <<>>
    /\ autoExcluded = <<>> /\ remainingSize = 0
    /\ selectedExcludes = <<>> /\ unselectedAutoExcludes = <<>>
    /\ finalExcludes = <<>> /\ finalSize = 0 /\ dedupedExcludes = <<>>
    /\ executed = 0

MatchIdle == mPc = "idle" /\ mPath = <<>> /\ mPattern = <<>> /\ mResult = FALSE

EstIdle == ePc = "idle" /\ eItems = <<>> /\ ePatterns = <<>> /\ eResult = 0

ScanIdle ==
    /\ sPc = "idle" /\ sRoot = Root(<<>>) /\ sSkip = <<>>
    /\ sItems = <<>> /\ sWarnings = <<>>

\* main() is entered: the options are parsed, nothing is computed yet.
MainInit ==
    /\ pc = "start"
    /\ fs \in Trees
    /\ options \in Options
    /\ skipDirs = <<>> /\ items = <<>> /\ warnings = <<>>
    /\ defaultExcludes = <<>> /\ extraExcludes = <<>> /\ allExcludes = <<>>
    /\ initialSize = 0 /\ sizeLimit = 0
    /\ fileChoices = <<>> /\ directoryChoices = <<>>
    /\ autoExcluded = <<>> /\ remainingSize = 0
    /\ selectedExcludes = <<>> /\ unselectedAutoExcludes = <<>>
    /\ finalExcludes = <<>> /\ finalSize = 0 /\ dedupedExcludes = <<>>
    /\ executed = 0

\* getExcludeDirs and scanDirectory
Scan ==
    /\ pc = "start"
    /\ LET skip == getExcludeDirs(options)
           r    == scanDirectory(fs, skip)
       IN  /\ skipDirs' = skip
           /\ items' = r.items
           /\ warnings' = r.warnings
    /\ pc' = "scanned"
    /\ UNCHANGED <<fs, options, defaultExcludes, extraExcludes, allExcludes,
                   initialSize, sizeLimit, fileChoices, directoryChoices,
                   autoExcluded, remainingSize, selectedExcludes,
                   unselectedAutoExcludes, finalExcludes, finalSize,
                   dedupedExcludes, executed>>

\* prepareExcludePatterns and the estimate with the baseline excludes
Prepare ==
    /\ pc = "scanned"
    /\ LET p == prepareExcludePatterns(fs, options)
       IN  /\ defaultExcludes' = p.defaultExcludes
           /\ extraExcludes' = p.extraExcludes
           /\ allExcludes' = p.allExcludes
           /\ initialSize' = estimateFinalSize(items, p.allExcludes)
    /\ sizeLimit' = options.limit * KB
    /\ pc' = "estimated"
    /\ UNCHANGED <<fs, options, skipDirs, items, warnings, fileChoices,
                   directoryChoices, autoExcluded, remainingSize, selectedExcludes,
                   unselectedAutoExcludes, finalExcludes, finalSize,
                   dedupedExcludes, executed>>

\* createSelectionChoices
CreateChoices ==
    /\ pc = "estimated"
    /\ fileChoices' = fileChoicesOf(items, allExcludes)
    /\ directoryChoices' = directoryChoicesOf(items, allExcludes)
    /\ pc' = "choices"
    /\ UNCHANGED <<fs, options, skipDirs, items, warnings, defaultExcludes,
                   extraExcludes, allExcludes, initialSize, sizeLimit,
                   autoExcluded, remainingSize, selectedExcludes,
                   unselectedAutoExcludes, finalExcludes, finalSize,
                   dedupedExcludes, executed>>

\* autoExcludeFiles(fileChoices, initialSize, sizeLimit, options.autoExclude):
\* it sets checked on the choice objects that the UI is about to show.
AutoExclude ==
    /\ pc = "choices"
    /\ LET r == autoExcludeFiles(fileChoices, initialSize, sizeLimit,
                                 options.autoExclude)
       IN  /\ autoExcluded' = r.autoExcluded
           /\ fileChoices' = r.choices
           /\ remainingSize' = r.remainingSize
    /\ pc' = "planned"
    /\ UNCHANGED <<fs, options, skipDirs, items, warnings, defaultExcludes,
                   extraExcludes, allExcludes, initialSize, sizeLimit,
                   directoryChoices, selectedExcludes, unselectedAutoExcludes,
                   finalExcludes, finalSize, dedupedExcludes, executed>>

\* The choices after the human toggled the boxes in set t (files are numbered
\* first, directories after them).
toggled(choices, offset, t) ==
    [i \in 1..Len(choices) |->
        IF (offset + i) \in t THEN [choices[i] EXCEPT !.checked = ~choices[i].checked]
        ELSE choices[i]]

\* The sets of boxes the human may toggle before confirming: any set of at
\* most MaxToggles boxes, and any file together with a directory above it.
humanToggles(files, dirs) ==
    {t \in SUBSET (1..(Len(files) + Len(dirs))) : Cardinality(t) <= MaxToggles}
    \cup {{i, Len(files) + d} : <<i, d>> \in
              {q \in (DOMAIN files) \X (DOMAIN dirs) :
                  startsWith(files[q[1]].value,
                             SubSeq(dirs[q[2]].value, 1, Len(dirs[q[2]].value) - 2))}}

\* inquirer.prompt: the human toggles boxes and confirms.
Prompt ==
    /\ pc = "planned"
    /\ \E t \in humanToggles(fileChoices, directoryChoices) :
          /\ selectedExcludes' =
                checkedValues(toggled(fileChoices, 0, t))
                \o checkedValues(toggled(directoryChoices, Len(fileChoices), t))
    /\ pc' = "answered"
    /\ UNCHANGED <<fs, options, skipDirs, items, warnings, defaultExcludes,
                   extraExcludes, allExcludes, initialSize, sizeLimit, fileChoices,
                   directoryChoices, autoExcluded, remainingSize,
                   unselectedAutoExcludes, finalExcludes, finalSize,
                   dedupedExcludes, executed>>

\* main() after the prompt: processUnselectedAutoExcludes, the final list
\* and estimate, the deduplicated list handed to buildCommand, and
\* executeCommand(cmd, options.execute).
Finish ==
    /\ pc = "answered"
    /\ unselectedAutoExcludes' =
          processUnselectedAutoExcludes(autoExcluded, selectedExcludes)
    /\ LET final == defaultExcludes \o extraExcludes \o selectedExcludes
       IN  /\ finalExcludes' = final
           /\ finalSize' = estimateFinalSize(items, final)
           /\ dedupedExcludes' = dedupe(final)
    /\ executed' = executeCommand(executed, options.execute)
    /\ pc' = "done"
    /\ UNCHANGED <<fs, options, skipDirs, items, warnings, defaultExcludes,
                   extraExcludes, allExcludes, initialSize, sizeLimit, fileChoices,
                   directoryChoices, autoExcluded, remainingSize, selectedExcludes>>

\* The promise of inquirer.prompt rejects: the catch of main() logs the error
\* and calls process.exit(1).
PromptFails ==
    /\ pc = "planned"
    /\ pc' = "exit1"
    /\ UNCHANGED <<fs, options, skipDirs, items, warnings, defaultExcludes,
                   extraExcludes, allExcludes, initialSize, sizeLimit, fileChoices,
                   directoryChoices, autoExcluded, remainingSize, selectedExcludes,
                   unselectedAutoExcludes, finalExcludes, finalSize,
                   dedupedExcludes, executed>>

Init == MainInit /\ MatchIdle /\ EstIdle /\ ScanIdle

Next ==
    \/ (Scan /\ UNCHANGED <<matchVars, estVars, scanVars>>)
    \/ (Prepare /\ UNCHANGED <<matchVars, estVars, scanVars>>)
    \/ (CreateChoices /\ UNCHANGED <<matchVars, estVars, scanVars>>)
    \/ (AutoExclude /\ UNCHANGED <<matchVars, estVars, scanVars>>)
    \/ (Prompt /\ UNCHANGED <<matchVars, estVars, scanVars>>)
    \/ (PromptFails /\ UNCHANGED <<matchVars, estVars, scanVars>>)
    \/ (Finish /\ UNCHANGED <<matchVars, estVars, scanVars>>)

Spec == Init /\ [][Next]_vars

-----------------------------------------------------------------------------
(* The matcher on its own: one call on a path and a pattern.               *)

MatchInit ==
    /\ \E pair \in (MatchPaths \X MatchPatterns) \cup ExamplePairs :
           mPath = pair[1] /\ mPattern = pair[2]
    /\ mPc = "call"
    /\ mResult = FALSE
    /\ MainIdle /\ EstIdle /\ ScanIdle

\* One call of utils.isPathExcluded(mPath, mPattern).
MatchCall ==
    /\ mPc = "call"
    /\ mResult' = isPathExcluded(mPath, mPattern)
    /\ mPc' = "returned"
    /\ UNCHANGED <<mPath, mPattern, estVars, scanVars, mainVars>>

MatchNext == MatchCall

MatchSpec == MatchInit /\ [][MatchNext]_vars

-----------------------------------------------------------------------------
(* The scanner on its own: one call on a tree and a list of skip targets.  *)

ScanInit ==
    /\ sRoot \in ScanTrees
    /\ \E extra \in ScanExtraExcludeChoices :
           sSkip = getExcludeDirs([extraExclude |-> extra])
    /\ sPc = "call"
    /\ sItems = <<>> /\ sWarnings = <<>>
    /\ MainIdle /\ MatchIdle /\ EstIdle

\* One call of scanDirectory(sRoot, sSkip).
ScanCall ==
    /\ sPc = "call"
    /\ LET r == scanDirectory(sRoot, sSkip)
       IN  sItems' = r.items /\ sWarnings' = r.warnings
    /\ sPc' = "returned"
    /\ UNCHANGED <<sRoot, sSkip, matchVars, estVars, mainVars>>

ScanNext == ScanCall

ScanSpec == ScanInit /\ [][ScanNext]_vars

-----------------------------------------------------------------------------
(* The estimator on its own: one call on scanned items and a pattern list. *)

MaxPatterns == 2

EstPatternPool ==
    { <<"a", ".", "t", "x", "t">>, <<"*", ".", "t", "x", "t">>, <<"s", "r", "c", "/", "*", "*">>, <<"*", ".", "m", "i", "n", ".", "j", "s">>, <<"n", "o", "d", "e", "_", "m", "o", "d", "u", "l", "e", "s", "/", "*", "*">> }

EstPatternLists == UNION {[1..n -> EstPatternPool] : n \in 0..MaxPatterns}

\* The pattern lists tried on the arrays of FlatItemLists.
FlatPatternLists == { <<>>, <<<<"f", "1">>>>, <<<<"f", "1", "*">>, <<"f", "5", "1", "2">>>> }

EstInit ==
    /\ \/ /\ \E tree \in Trees :
                 eItems = scanDirectory(tree, COMMON_EXCLUDE_DIRS).items
          /\ ePatterns \in EstPatternLists
       \/ /\ eItems \in FlatItemLists
          /\ ePatterns \in FlatPatternLists
    /\ ePc = "call"
    /\ eResult = 0
    /\ MainIdle /\ MatchIdle /\ ScanIdle

\* One call of estimateFinalSize(eItems, ePatterns).
EstCall ==
    /\ ePc = "call"
    /\ eResult' = estimateFinalSize(eItems, ePatterns)
    /\ ePc' = "returned"
    /\ UNCHANGED <<eItems, ePatterns, matchVars, scanVars, mainVars>>

EstNext == EstCall

EstSpec == EstInit /\ [][EstNext]_vars

-----------------------------------------------------------------------------
(* Properties of the planner, the estimator and main(), checked under Spec *)
(* and EstSpec.                                                            *)

\* The sum of f[i] over the positions i of lo..hi that are in S.
RECURSIVE SumBetween(_, _, _, _)
SumBetween(f, S, lo, hi) ==
    IF lo > hi THEN 0
    ELSE IF lo = hi THEN (IF lo \in S THEN f[lo] ELSE 0)
    ELSE LET mid == (lo + hi) \div 2
         IN  SumBetween(f, S, lo, mid) + SumBetween(f, S, mid + 1, hi)

\* The sum of the sequence f over the set S of its positions.
SumOver(f, S) == SumBetween(f, S, 1, Len(f))

\* The step of main() that calls autoExcludeFiles.
PlannerStep == pc = "choices" /\ pc' = "planned"

PlannerRuns == options.autoExclude /\ initialSize > sizeLimit

\* picked is the shortest largest-first run of the unchecked choices of
\* before that brings initial - (sizes picked) to at most 95% of limit, or
\* all of them when no run does; remaining is what is left.
IsShortestLargestFirstRun(before, picked, initial, limit, remaining) ==
    LET cand == {i \in DOMAIN before : ~before[i].checked}
        n == Len(picked)
        at(k) == CHOOSE i \in DOMAIN before : before[i].value = picked[k]
        size == [i \in DOMAIN before |-> before[i].size]
        left(m) == initial - SumOver(size, {at(k) : k \in 1..m})
    IN  /\ \A k \in 1..n : \E i \in cand : before[i].value = picked[k]
        /\ \A k, l \in 1..n : k # l => picked[k] # picked[l]
        \* largest first: nothing still available is larger than the one taken
        /\ \A k \in 1..n : \A i \in cand \ {at(l) : l \in 1..k} :
              before[i].size <= before[at(k)].size
        /\ remaining = left(n)
        \* it stops as soon as the target is met, or the candidates run out
        /\ n < Cardinality(cand) => left(n) * 100 <= limit * 95
        \* and not before: without the last one the target is not met
        /\ n >= 1 => left(n - 1) * 100 > limit * 95

\* C1: the planner selects files largest-first and stops as soon as the
\* remaining size is at most 95% of the limit or the candidates run out: the
\* list returned is the shortest prefix of the size-descending candidates
\* that reaches the target, so without its last file the target is missed.
\* For files of 500, 300, 200 and 100 KB and a limit of 400 KB it selects
\* exactly the 500 KB and the 300 KB file.
C1_PlannerShortestPrefix ==
    [][(PlannerStep /\ PlannerRuns) =>
          /\ IsShortestLargestFirstRun(fileChoices, autoExcluded', initialSize,
                                       sizeLimit, remainingSize')
          /\ (fs = ExampleTree /\ options.limit = 400 /\ options.extraExclude = <<>>)
                => autoExcluded' = << <<"b", ".", "t", "x", "t">>, <<"d", ".", "t", "x", "t">> >>]_vars

C1_Witness ==
    /\ pc = "planned"
    /\ fs = ExampleTree /\ options.limit = 400 /\ options.autoExclude
    /\ autoExcluded = << <<"b", ".", "t", "x", "t">>, <<"d", ".", "t", "x", "t">> >>
    /\ \E i \in DOMAIN fileChoices : ~fileChoices[i].checked

\* C2: autoExcludeFiles returns an empty list and pre-checks nothing unless
\* autoExclude is set and the initial size is strictly above the limit; in
\* particular it does nothing for an initial size between 95% of the limit
\* and the limit.
C2_PlannerNoOpUnlessOverLimit ==
    [][(PlannerStep /\ ~(options.autoExclude /\ initialSize > sizeLimit)) =>
          /\ autoExcluded' = <<>>
          /\ fileChoices' = fileChoices]_vars

C2_Witness ==
    /\ pc = "planned"
    /\ options.autoExclude
    /\ initialSize * 100 > sizeLimit * 95
    /\ initialSize <= sizeLimit
    /\ \E i \in DOMAIN fileChoices : ~fileChoices[i].checked /\ fileChoices[i].size > 0
    /\ autoExcluded = <<>>

PlannerDone == pc \in {"planned", "answered", "done"}

C3_WitnessExhausted ==
    /\ pc = "planned"
    /\ PlannerRuns
    /\ options.limit > 0
    /\ autoExcluded # <<>>
    /\ \A i \in DOMAIN fileChoices : fileChoices[i].checked
    /\ remainingSize > sizeLimit

\* C4: the human selection is authoritative: a file that the human leaves
\* unchecked is matched by no pattern of finalExcludes and its size counts
\* in the final estimate, whatever pre-checked it, and a directory left
\* unchecked is not excluded either.
C4_UncheckedMeansIncluded ==
    pc = "done" =>
        LET unchecked == {i \in DOMAIN fileChoices :
                             ~arrayIncludes(selectedExcludes, fileChoices[i].value)}
            size == [i \in DOMAIN fileChoices |-> fileChoices[i].size]
        IN  /\ \A i \in unchecked : ~isExcluded(fileChoices[i].value, finalExcludes)
            /\ finalSize = SumOver(size, unchecked) + markdownOverhead(items)
            /\ \A d \in DOMAIN directoryChoices :
                  ~arrayIncludes(selectedExcludes, directoryChoices[d].value)
                     => ~arrayIncludes(finalExcludes, directoryChoices[d].value)

\* C5: estimateFinalSize(items, patterns) is the sum of size over exactly
\* the entries that are files and that no pattern matches, plus the overhead
\* min(100 * number of entries, 51200); directories never add their size;
\* with no pattern it is the sum of all file sizes plus the overhead.
C5_EstimateSumsIncludedFiles ==
    ePc = "returned" =>
        LET size == [i \in DOMAIN eItems |-> eItems[i].size]
            files == {i \in DOMAIN eItems : ~eItems[i].isDirectory}
            kept == {i \in files :
                        \A k \in DOMAIN ePatterns :
                            ~isPathExcluded(eItems[i].path, ePatterns[k])}
            overhead == IF Len(eItems) * 100 < 51200 THEN Len(eItems) * 100 ELSE 51200
        IN  /\ eResult = SumOver(size, kept) + overhead
            /\ ePatterns = <<>> => eResult = SumOver(size, files) + overhead

C5_Witness ==
    /\ ePc = "returned"
    /\ ePatterns # <<>>
    /\ \E i \in DOMAIN eItems :
          /\ ~eItems[i].isDirectory /\ eItems[i].size > 0
          /\ isExcluded(eItems[i].path, ePatterns)
    /\ \E i \in DOMAIN eItems :
          /\ ~eItems[i].isDirectory /\ eItems[i].size > 0
          /\ ~isExcluded(eItems[i].path, ePatterns)
    /\ \E i \in DOMAIN eItems : eItems[i].isDirectory /\ eItems[i].size > 0
    /\ eResult > 0

C5_WitnessNoPattern ==
    /\ ePc = "returned"
    /\ ePatterns = <<>>
    /\ \E i \in DOMAIN eItems : eItems[i].isDirectory /\ eItems[i].size > 0
    /\ eResult > Len(eItems) * 100

\* C18: the overhead that estimateFinalSize adds to the sizes of the
\* included files is min(100 * number of entries, 51200), counting every
\* scanned entry, file or directory, excluded or not: it never exceeds 51200,
\* it is the same whatever the patterns exclude, and for 10,000 entries it is
\* 51200.
C18_OverheadCappedAndPatternFree ==
    ePc = "returned" =>
        LET size == [i \in DOMAIN eItems |-> eItems[i].size]
            files == {i \in DOMAIN eItems : ~eItems[i].isDirectory}
            kept == {i \in files : ~isExcluded(eItems[i].path, ePatterns)}
            overhead == eResult - SumOver(size, kept)
        IN  /\ overhead = IF Len(eItems) * 100 <= 51200
                          THEN Len(eItems) * 100 ELSE 51200
            /\ overhead <= 51200
            /\ overhead = estimateFinalSize(eItems, <<>>) - SumOver(size, files)
            /\ markdownOverhead([i \in 1..10000 |-> i]) = 51200

C18_Witness ==
    /\ ePc = "returned"
    /\ Len(eItems) * 100 > 51200
    /\ \E i \in DOMAIN eItems : isExcluded(eItems[i].path, ePatterns)
    /\ eResult > 51200

\* C24: estimateFinalSize is monotone in the pattern list: the estimate
\* with the patterns P followed by Q is at most the estimate with P alone,
\* for every way of cutting the pattern list of a call into P and Q, and
\* every estimate is at least the overhead term.
C24_EstimateMonotoneInPatterns ==
    ePc = "returned" =>
        /\ \A k \in 0..Len(ePatterns) :
              eResult <= estimateFinalSize(eItems, SubSeq(ePatterns, 1, k))
        /\ eResult >= markdownOverhead(eItems)

C24_Witness ==
    /\ ePc = "returned"
    /\ Len(ePatterns) = 2
    /\ eResult < estimateFinalSize(eItems, SubSeq(ePatterns, 1, 1))
    /\ estimateFinalSize(eItems, SubSeq(ePatterns, 1, 1)) < estimateFinalSize(eItems, <<>>)
    /\ eResult > markdownOverhead(eItems)

-----------------------------------------------------------------------------
(* Properties of the path matcher, checked under MatchSpec.                *)

\* p is a prefix of s, character by character.
IsPrefixOf(p, s) == Len(p) <= Len(s) /\ \A i \in 1..Len(p) : s[i] = p[i]

\* The pattern ends in the three characters '/**'.
IsSubtreePattern(pattern) ==
    /\ Len(pattern) >= 3
    /\ pattern[Len(pattern) - 2] = "/"
    /\ pattern[Len(pattern) - 1] = "*"
    /\ pattern[Len(pattern)] = "*"

HasStar(pattern) == \E i \in 1..Len(pattern) : pattern[i] = "*"

\* A general wildcard pattern: it has a '*' and does not end in '/**'.
IsWildcardPattern(pattern) == HasStar(pattern) /\ ~IsSubtreePattern(pattern)

HasDoubleStar(pattern) ==
    \E i \in 1..(Len(pattern) - 1) : pattern[i] = "*" /\ pattern[i + 1] = "*"

\* Glob semantics with literal characters: '**' stands for any characters,
\* a single '*' for any characters other than '/', every other character of
\* the pattern for itself; the whole path is consumed.
RECURSIVE GlobMatches(_, _)
GlobMatches(path, pattern) ==
    IF pattern = <<>> THEN path = <<>>
    ELSE IF Len(pattern) >= 2 /\ pattern[1] = "*" /\ pattern[2] = "*"
    THEN \E k \in 0..Len(path) :
            GlobMatches(SubSeq(path, k + 1, Len(path)), SubSeq(pattern, 3, Len(pattern)))
    ELSE IF pattern[1] = "*"
    THEN \E k \in 0..Len(path) :
            /\ \A i \in 1..k : path[i] # "/"
            /\ GlobMatches(SubSeq(path, k + 1, Len(path)), Tail(pattern))
    ELSE /\ path # <<>>
         /\ path[1] = pattern[1]
         /\ GlobMatches(Tail(path), Tail(pattern))

\* C6: for a pattern ending in '/**', the path matches iff it equals the
\* pattern without that suffix, or starts with that prefix followed by '/';
\* 'src/**' matches 'src' and 'src/index.ts' and not 'srcx/index.ts'.
C6_SubtreePatternMatch ==
    (mPc = "returned" /\ IsSubtreePattern(mPattern)) =>
        LET dir == [i \in 1..(Len(mPattern) - 3) |-> mPattern[i]]
        IN  /\ mResult <=> (mPath = dir \/ IsPrefixOf(Append(dir, "/"), mPath))
            /\ (mPattern = <<"s", "r", "c", "/", "*", "*">> /\ mPath \in {<<"s", "r", "c">>, <<"s", "r", "c", "/", "i", "n", "d", "e", "x", ".", "t", "s">>}) => mResult
            /\ (mPattern = <<"s", "r", "c", "/", "*", "*">> /\ mPath = <<"s", "r", "c", "x", "/", "i", "n", "d", "e", "x", ".", "t", "s">>) => ~mResult

C6_Witness ==
    /\ mPc = "returned"
    /\ mPattern = <<"s", "r", "c", "/", "*", "*">>
    /\ mPath = <<"s", "r", "c", "x", "/", "i", "n", "d", "e", "x", ".", "t", "s">>
    /\ ~mResult

C6_WitnessNested ==
    /\ mPc = "returned"
    /\ mPattern = <<"s", "r", "c", "/", "a", "s", "s", "e", "t", "s", "/", "i", "m", "a", "g", "e", "s", "/", "*", "*">>
    /\ mPath = <<"s", "r", "c", "/", "a", "s", "s", "e", "t", "s", "/", "i", "m", "a", "g", "e", "s", "/", "a", ".", "p", "n", "g">>
    /\ mResult

\* C7: in a general wildcard pattern '**' matches any sequence of characters
\* including '/': '**/*.min.js' matches 'app.min.js' and 'sub/app.min.js',
\* and the pattern '**' matches every path.
C7_DoubleStarMatchesAcrossSlash ==
    (mPc = "returned" /\ IsWildcardPattern(mPattern)) =>
        /\ (mPattern = <<"*", "*", "/", "*", ".", "m", "i", "n", ".", "j", "s">> /\ mPath \in {<<"a", "p", "p", ".", "m", "i", "n", ".", "j", "s">>, <<"s", "u", "b", "/", "a", "p", "p", ".", "m", "i", "n", ".", "j", "s">>})
              => mResult
        /\ mPattern = <<"*", "*">> => mResult
        /\ (HasDoubleStar(mPattern) /\ GlobMatches(mPath, mPattern)) => mResult

\* C8: in a general wildcard pattern a single '*' matches any sequence of
\* characters without '/', and the match is anchored at both ends: for a
\* pattern of single stars and literal characters the path matches iff it
\* can be cut so that every star covers a slash-free piece and every other
\* character is met in place; '*.min.js' matches 'app.min.js' and not
\* 'sub/app.min.js'.
C8_SingleStarStopsAtSlash ==
    (mPc = "returned" /\ IsWildcardPattern(mPattern)) =>
        /\ (~HasDoubleStar(mPattern) /\ ~includes(mPattern, "."))
              => (mResult <=> GlobMatches(mPath, mPattern))
        /\ (~HasDoubleStar(mPattern) /\ GlobMatches(mPath, mPattern)) => mResult
        /\ (mPattern = <<"*", ".", "m", "i", "n", ".", "j", "s">> /\ mPath = <<"a", "p", "p", ".", "m", "i", "n", ".", "j", "s">>) => mResult
        /\ (mPattern = <<"*", ".", "m", "i", "n", ".", "j", "s">> /\ mPath = <<"s", "u", "b", "/", "a", "p", "p", ".", "m", "i", "n", ".", "j", "s">>) => ~mResult

C8_Witness ==
    /\ mPc = "returned"
    /\ mPattern = <<"*", ".", "m", "i", "n", ".", "j", "s">>
    /\ mPath = <<"s", "u", "b", "/", "a", "p", "p", ".", "m", "i", "n", ".", "j", "s">>
    /\ ~mResult

\* C9: every regex metacharacter other than '*' is escaped when a wildcard
\* pattern is compiled, so each non-'*' character of the pattern matches only
\* itself: a path matched by a wildcard pattern matches it under glob
\* semantics with literal characters.
C9_MetacharactersAreLiteral ==
    (mPc = "returned" /\ IsWildcardPattern(mPattern) /\ ~HasDoubleStar(mPattern)) =>
        (mResult => GlobMatches(mPath, mPattern))

\* C10: a pattern without '*' matches a path iff the two are the same
\* string; 'package-lock.json' does not match 'sub/package-lock.json'.
C10_LiteralPatternExactMatch ==
    (mPc = "returned" /\ ~HasStar(mPattern)) =>
        /\ mResult <=> (Len(mPath) = Len(mPattern)
                          /\ \A i \in 1..Len(mPath) : mPath[i] = mPattern[i])
        /\ (mPattern = <<"p", "a", "c", "k", "a", "g", "e", "-", "l", "o", "c", "k", ".", "j", "s", "o", "n">> /\ mPath = <<"s", "u", "b", "/", "p", "a", "c", "k", "a", "g", "e", "-", "l", "o", "c", "k", ".", "j", "s", "o", "n">>)
              => ~mResult

C10_Witness ==
    /\ mPc = "returned"
    /\ mPattern = <<"p", "a", "c", "k", "a", "g", "e", "-", "l", "o", "c", "k", ".", "j", "s", "o", "n">>
    /\ mPath = <<"s", "u", "b", "/", "p", "a", "c", "k", "a", "g", "e", "-", "l", "o", "c", "k", ".", "j", "s", "o", "n">>
    /\ ~mResult

-----------------------------------------------------------------------------
(* Properties of main() after the prompt, checked under Spec.              *)

\* The elements of a sequence.
Elements(seq) == {seq[i] : i \in DOMAIN seq}

\* The index of the first occurrence of x in seq.
FirstIndex(seq, x) ==
    CHOOSE k \in DOMAIN seq : seq[k] = x /\ \A h \in 1..(k - 1) : seq[h] # x

NoRepeats(seq) == \A i, j \in DOMAIN seq : i # j => seq[i] # seq[j]

\* C11: the exclude list handed to buildCommand is defaultExcludes, then
\* extraExcludes, then selectedExcludes, with duplicates removed: it holds no
\* pattern twice, it holds every pattern of the three lists and nothing else,
\* and its patterns stand in the order of their first occurrences.
C11_FinalListDedupedInOrder ==
    pc = "done" =>
        LET all == defaultExcludes \o extraExcludes \o selectedExcludes
        IN  /\ NoRepeats(dedupedExcludes)
            /\ Elements(dedupedExcludes) = Elements(all)
            /\ \A i, j \in DOMAIN dedupedExcludes :
                  i < j => FirstIndex(all, dedupedExcludes[i])
                             < FirstIndex(all, dedupedExcludes[j])

C11_Witness ==
    /\ pc = "done"
    /\ Len(dedupedExcludes) < Len(finalExcludes)
    /\ \E k \in DOMAIN selectedExcludes :
          /\ ~arrayIncludes(defaultExcludes \o extraExcludes, selectedExcludes[k])
          /\ arrayIncludes(dedupedExcludes, selectedExcludes[k])
    /\ \E k \in DOMAIN selectedExcludes :
          arrayIncludes(defaultExcludes, selectedExcludes[k])

-----------------------------------------------------------------------------
(* Properties of the scanner, checked under ScanSpec.                      *)

\* The positions of the returned entries that have the given path.
ItemsAt(path) == {i \in DOMAIN sItems : sItems[i].path = path}

\* path lies beneath the directory dir.
IsBeneath(path, dir) == IsPrefixOf(Append(dir, "/"), path)

\* The directory at path is a skip target: a target without '/' names a
\* direct child of the scan root, a target with '/' is a full relative path.
IsSkipTarget(path) ==
    \E k \in DOMAIN sSkip :
        IF \A c \in DOMAIN sSkip[k] : sSkip[k][c] # "/"
        THEN path = sSkip[k] /\ \A c \in DOMAIN path : path[c] # "/"
        ELSE path = sSkip[k]

\* The node of the tree at a relative path (the root for the empty path).
NodeAt(path) ==
    IF path = <<>> THEN sRoot ELSE lookupIn(sRoot.entries, SplitSlash(path)).node

ChildPath(base, name) == IF base = <<>> THEN name ELSE base \o <<"/">> \o name

\* The directories the scan read or tried to read: the root and every
\* returned directory that is no skip target.
Descended ==
    {<<>>} \cup {sItems[i].path : i \in {j \in DOMAIN sItems :
                     sItems[j].isDirectory /\ ~IsSkipTarget(sItems[j].path)}}

\* C13: every directory the scanner skips has exactly one entry, with
\* isDirectory true and size 0, and no returned entry lies beneath it; a
\* skip name without '/' is skipped only as a direct child of the scan root
\* (a directory of that name further down is listed with its contents), and
\* a skip target with '/' is skipped where the relative path equals it.
C13_SkippedDirectoriesAreLeaves ==
    sPc = "returned" =>
        /\ \A i \in DOMAIN sItems :
              (sItems[i].isDirectory /\ IsSkipTarget(sItems[i].path)) =>
                  /\ sItems[i].size = 0
                  /\ Cardinality(ItemsAt(sItems[i].path)) = 1
                  /\ \A j \in DOMAIN sItems : ~IsBeneath(sItems[j].path, sItems[i].path)
        /\ \A d \in Descended :
              LET node == NodeAt(d)
              IN  node.readOk =>
                    \A x \in DOMAIN node.entries :
                        node.entries[x].statOk =>
                            \E j \in ItemsAt(ChildPath(d, node.entries[x].name)) :
                                /\ Cardinality(ItemsAt(sItems[j].path)) = 1
                                /\ sItems[j].isDirectory = (node.entries[x].kind = "dir")

C13_Witness ==
    /\ sPc = "returned"
    /\ arrayIncludes(sSkip, <<"s", "r", "c", "/", "l", "i", "b">>)
    /\ \E i \in ItemsAt(<<"s", "r", "c", "/", "l", "i", "b">>) : sItems[i].size = 0
    /\ ItemsAt(<<"s", "r", "c", "/", "l", "i", "b", "/", "z", ".", "j", "s">>) = {}
    /\ \E i \in ItemsAt(<<"n", "o", "d", "e", "_", "m", "o", "d", "u", "l", "e", "s">>) : sItems[i].size = 0
    /\ \E i \in ItemsAt(<<"s", "r", "c", "/", "n", "o", "d", "e", "_", "m", "o", "d", "u", "l", "e", "s">>) : sItems[i].size > 0
    /\ ItemsAt(<<"s", "r", "c", "/", "n", "o", "d", "e", "_", "m", "o", "d", "u", "l", "e", "s", "/", "y", ".", "j", "s">>) # {}
    /\ \E i \in ItemsAt(<<"l", "i", "b">>) : sItems[i].size > 0

\* C14: an entry that is unreadable during the scan (a file or directory
\* that cannot be stat'd, a subdirectory that cannot be read) has no entry in
\* the result and a warning is logged for it, and the other entries of the
\* same directory are returned.
C14_UnreadableEntriesOmitted ==
    sPc = "returned" =>
        \A d \in Descended :
            LET node == NodeAt(d)
            IN  (d = <<>> \/ node.readOk) =>
                  \A x \in DOMAIN node.entries :
                      LET e == node.entries[x]
                          path == ChildPath(d, e.name)
                          unreadable ==
                              \/ ~e.statOk
                              \/ e.kind = "dir" /\ ~e.readOk /\ ~IsSkipTarget(path)
                      IN  IF unreadable
                          THEN ItemsAt(path) = {} /\ arrayIncludes(sWarnings, path)
                          ELSE ItemsAt(path) # {}

\* C19: scanDirectory returns files and directories in one sequence sorted
\* by size, largest first: of two adjacent entries the earlier is at least
\* as large as the later, so the skipped directories (size 0) come after
\* every entry of positive size.
C19_ItemsSortedBySizeDescending ==
    sPc = "returned" =>
        /\ \A i \in 1..(Len(sItems) - 1) : sItems[i].size >= sItems[i + 1].size
        /\ \A i, j \in DOMAIN sItems :
              (sItems[i].isDirectory /\ IsSkipTarget(sItems[i].path)
                 /\ sItems[j].size > 0) => j < i

C19_Witness ==
    /\ sPc = "returned"
    /\ sItems # scanDir(sRoot, <<>>, sSkip).items
    /\ \E i, j \in DOMAIN sItems :
          /\ i < j
          /\ sItems[i].isDirectory /\ sItems[i].size > 0
          /\ ~sItems[j].isDirectory /\ sItems[j].size > 0
    /\ \E i \in DOMAIN sItems :
          /\ sItems[i].isDirectory /\ IsSkipTarget(sItems[i].path)
          /\ i > 1 /\ sItems[i - 1].size > 0

-----------------------------------------------------------------------------
(* Properties of a whole run of main(), checked under Spec.                *)

\* C15: when the root directory itself cannot be read, the failure reaches
\* the caller: the run does not go on to the estimate, the prompt or the
\* command with an empty list of entries, and nothing is executed.
C15_RootFailurePropagates ==
    ~fs.readOk =>
        /\ pc \notin {"estimated", "choices", "planned", "answered", "done"}
        /\ executed = 0

\* The order in which main() moves on.
MainOrder ==
    { <<"start", "scanned">>, <<"scanned", "estimated">>, <<"estimated", "choices">>,
      <<"choices", "planned">>, <<"planned", "answered">>, <<"planned", "exit1">>,
      <<"answered", "done">> }

\* C16: the command is executed at most once in a run, only in the step
\* that follows the answered prompt, which itself follows the scan, the
\* baseline estimate and the planner in that order, and never when
\* --no-execute is given (options.execute is false).
C16_ExecutedOnceAfterSelection ==
    [][/\ pc' # pc => <<pc, pc'>> \in MainOrder
       /\ executed' # executed =>
             /\ pc = "answered" /\ pc' = "done"
             /\ options.execute
             /\ executed = 0 /\ executed' = 1
       /\ executed' <= 1
       /\ ~options.execute => executed' = 0]_vars

C16_Witness ==
    /\ pc = "done"
    /\ options.execute
    /\ executed = 1
    /\ items # <<>> /\ selectedExcludes # <<>>

C16_WitnessNoExecute ==
    /\ pc = "done"
    /\ ~options.execute
    /\ executed = 0
    /\ dedupedExcludes # <<>>

\* The paths of the scanned files that no baseline pattern matches.
FreeFiles ==
    {items[i].path : i \in {j \in DOMAIN items :
        ~items[j].isDirectory /\ ~isExcluded(items[j].path, allExcludes)}}

\* C17: the candidates of the planner are exactly the scanned files that no
\* baseline (default or extra) pattern matches, each once, in descending
\* order of size; what the planner returns is among them, so it is never a
\* directory and never a file that a baseline pattern already excludes.
C17_CandidatesAreFreeFiles ==
    [][PlannerStep =>
          LET cand == filesToConsider(fileChoices)
          IN  /\ {fileChoices[cand[k]].value : k \in DOMAIN cand} = FreeFiles
              /\ NoRepeats(cand)
              /\ \A k \in 1..(Len(cand) - 1) :
                    fileChoices[cand[k]].size >= fileChoices[cand[k + 1]].size
              /\ Elements(autoExcluded') \subseteq FreeFiles
              /\ \A k \in DOMAIN autoExcluded' : \A i \in DOMAIN items :
                    items[i].isDirectory =>
                        /\ autoExcluded'[k] # items[i].path
                        /\ autoExcluded'[k] # items[i].path \o <<"/", "*", "*">>]_vars

C17_Witness ==
    /\ pc = "planned"
    /\ PlannerRuns
    /\ autoExcluded # <<>>
    /\ \E i \in DOMAIN fileChoices :
          /\ isExcluded(fileChoices[i].value, allExcludes)
          /\ ~arrayIncludes(autoExcluded, fileChoices[i].value)
          /\ \E j \in DOMAIN fileChoices :
                /\ arrayIncludes(autoExcluded, fileChoices[j].value)
                /\ fileChoices[i].size >= fileChoices[j].size
    /\ \E i \in DOMAIN items : items[i].isDirectory /\ items[i].size > 0

\* The scan entries and the exclude lists stay as they were produced.
ScanAndExcludesKept ==
    /\ pc # "start" => items' = items
    /\ pc \notin {"start", "scanned"} =>
          /\ defaultExcludes' = defaultExcludes
          /\ extraExcludes' = extraExcludes
          /\ allExcludes' = allExcludes

ChoicesBuilt == pc \notin {"start", "scanned", "estimated"}

\* C20 as stated: every stage leaves the output of the stages before it as
\* it is: the scan entries, the exclude lists and the choices built by
\* createSelectionChoices are modified by no later stage.
C20_StagesLeaveInputsUnmodified ==
    [][/\ ScanAndExcludesKept
       /\ ChoicesBuilt => /\ fileChoices' = fileChoices
                          /\ directoryChoices' = directoryChoices]_vars

\* C20 as amended: the scan entries, the exclude lists and the directory
\* choices are modified by no later stage; the file choices are modified by
\* the planner alone, which sets checked on the choices it returns and
\* leaves their value and size, and every other choice, as they were.
C20_OnlyPlannerChecksItsPicks ==
    [][/\ ScanAndExcludesKept
       /\ ChoicesBuilt =>
             /\ directoryChoices' = directoryChoices
             /\ ~PlannerStep => fileChoices' = fileChoices
             /\ PlannerStep =>
                   /\ Len(fileChoices') = Len(fileChoices)
                   /\ \A i \in DOMAIN fileChoices :
                         /\ fileChoices'[i].value = fileChoices[i].value
                         /\ fileChoices'[i].size = fileChoices[i].size
                         /\ fileChoices'[i].checked =
                               (fileChoices[i].checked
                                  \/ arrayIncludes(autoExcluded', fileChoices[i].value))]_vars

C20_Witness ==
    /\ pc = "planned"
    /\ autoExcluded # <<>>
    /\ fileChoices # fileChoicesOf(items, allExcludes)
    /\ \E i \in DOMAIN fileChoices :
          fileChoices[i].checked /\ ~arrayIncludes(autoExcluded, fileChoices[i].value)

-----------------------------------------------------------------------------
(* Properties that relate the stages of main(), checked under Spec.        *)

\* C21: every auto-excluded file that the human un-selects is included in
\* the output, as the warning of processUnselectedAutoExcludes says: each
\* path it reports is matched by no pattern of finalExcludes and its size is
\* counted in the final estimate, also when the human checks a directory
\* that contains the file.
C21_UnselectedPicksAreIncluded ==
    pc = "done" =>
        /\ \A k \in DOMAIN unselectedAutoExcludes :
              ~isExcluded(unselectedAutoExcludes[k], finalExcludes)
        /\ LET size == [i \in DOMAIN fileChoices |-> fileChoices[i].size]
               reported == {i \in DOMAIN fileChoices :
                               arrayIncludes(unselectedAutoExcludes, fileChoices[i].value)}
               others == {i \in DOMAIN fileChoices :
                             /\ i \notin reported
                             /\ ~isExcluded(fileChoices[i].value, finalExcludes)}
           IN  finalSize = SumOver(size, reported) + SumOver(size, others)
                             + markdownOverhead(items)

\* The paths of the directories in its that a scan with the skip list skip
\* has skipped.
SkippedDirs(its, skip) ==
    {its[i].path : i \in {j \in DOMAIN its :
        /\ its[j].isDirectory
        /\ \E k \in DOMAIN skip :
              IF \A c \in DOMAIN skip[k] : skip[k][c] # "/"
              THEN its[j].path = skip[k] /\ \A c \in DOMAIN its[j].path : its[j].path[c] # "/"
              ELSE its[j].path = skip[k]}}

\* C22: every directory the scanner skips is matched by some pattern of the
\* baseline list of prepareExcludePatterns, so its choice is pre-checked in
\* the selection UI and a pattern of finalExcludes still matches it at the
\* end; the skip list of getExcludeDirs and the pattern list agree on the
\* skipped directories for every --extra-exclude value tried.
C22_SkippedDirectoriesAreExcluded ==
    /\ pc = "scanned" =>
          \A extra \in ScanExtraExcludeChoices :
              LET opts == [options EXCEPT !.extraExclude = extra]
                  skip == getExcludeDirs(opts)
                  its  == scanDirectory(fs, skip).items
                  pats == prepareExcludePatterns(fs, opts).allExcludes
              IN  \A path \in SkippedDirs(its, skip) : isExcluded(path, pats)
    /\ pc \in {"estimated", "choices"} =>
          \A path \in SkippedDirs(items, skipDirs) : isExcluded(path, allExcludes)
    /\ pc \in {"planned", "answered", "done", "exit1"} =>
          \A path \in SkippedDirs(items, skipDirs) :
              \E d \in DOMAIN directoryChoices :
                  /\ directoryChoices[d].value = path \o <<"/", "*", "*">>
                  /\ directoryChoices[d].checked
    /\ pc = "done" =>
          \A path \in SkippedDirs(items, skipDirs) : isExcluded(path, finalExcludes)

C22_Witness ==
    /\ pc = "done"
    /\ options.extraExclude = << <<"s", "r", "c">> >>
    /\ <<"s", "r", "c">> \in SkippedDirs(items, skipDirs)
    /\ <<"n", "o", "d", "e", "_", "m", "o", "d", "u", "l", "e", "s">> \in SkippedDirs(items, skipDirs)
    /\ arrayIncludes(extraExcludes, <<"s", "r", "c", "/", "*", "*">>)
    /\ ~arrayIncludes(selectedExcludes, <<"s", "r", "c", "/", "*", "*">>)

\* The human confirmed the boxes as they were shown.
NothingToggled ==
    selectedExcludes = checkedValues(fileChoices) \o checkedValues(directoryChoices)

\* C23: when --auto-exclude is set, the planner ran and stopped with a
\* remaining size of at most 95% of the limit, and the human returns exactly
\* the pre-checked values, the final estimate computed from finalExcludes is
\* at most the remaining size the planner projected, and so within the limit.
C23_UntouchedSelectionKeepsProjection ==
    (/\ pc = "done"
     /\ PlannerRuns
     /\ remainingSize * 100 <= sizeLimit * 95
     /\ NothingToggled) =>
        /\ finalSize <= remainingSize
        /\ finalSize <= sizeLimit

C23_Witness ==
    /\ pc = "done"
    /\ PlannerRuns
    /\ remainingSize * 100 <= sizeLimit * 95
    /\ NothingToggled
    /\ autoExcluded # <<>>
    /\ finalSize < initialSize
    /\ \E i \in DOMAIN fileChoices : ~fileChoices[i].checked /\ fileChoices[i].size > 0

\* The corollary of C24 for main(): whatever the human selects, the final
\* estimate is at most the baseline estimate shown before the prompt.
FinalEstimateAtMostBaseline == pc = "done" => finalSize <= initialSize

====
